---- MODULE Spec2Model ----
(***************************************************************************)
(* A model of akubra's credentials store (transport/crdstore), sharding    *)
(* ring (sharding), transport decorators (httphandler) and storage backend *)
(* (storages).  Each component has a specification of its own:             *)
(*   SpecCrd        - concurrent Gets and background refreshes on a store  *)
(*   SpecCrdTTL     - the same store for a range of TTLs, the clock fixed  *)
(*   LiveSpecCrdTTL - SpecCrdTTL with the goroutines' scheduling           *)
(*   SpecInstances  - concurrent GetInstance calls on the registry         *)
(*   SpecRing       - clientRing followed by Pick on a set of paths        *)
(*   SpecDecorate   - Decorate and one round trip through the chain        *)
(*   SpecOptions    - one round trip through the OPTIONS handler           *)
(*   SpecHeaders    - one round trip through the header supplier           *)
(*   SpecBackend    - one round trip through a storage backend             *)
(***************************************************************************)
EXTENDS Integers, Sequences, FiniteSets, TLC

VARIABLES
    \* ---- credentials store ----
    cache,      \* cs.cache: key -> entry (Nil when the key was never stored)
    lockHeld,   \* cs.lock: the mutexLocked bit
    cs_TTL,     \* cs.TTL, in milliseconds
    now,        \* the wall clock read by time.Now(), in milliseconds
    proc,       \* the goroutines running Get or a background updateCache
    coldGets,   \* per key, the upstream requests sent by calls that loaded no entry
    \* ---- sharding ring ----
    conf,       \* config.Config: Clusters (the catalog) and Client
    ringPc,     \* "config", then "built" or "error" once clientRing has run
    sr,         \* the shardsRing clientRing returned
    picked,     \* the last Pick: its key and what it returned
    \* ---- decorators ----
    decorators, \* the decorators passed to Decorate, in the order listed
    chain,      \* the http.RoundTripper Decorate returned
    callee,     \* the RoundTripper whose RoundTrip is called next
    stack,      \* the decorators whose RoundTrip is running, outermost first
    events,     \* who saw the request and the response, in order
    decPc,      \* "start", "call" (going in), "return" (coming back)
    \* ---- storage backend ----
    bEndpoint,  \* the backend's configured endpoint URL
    bInner,     \* what the backend's underlying transport answers
    bReq,       \* the inbound request
    bOut,       \* the request handed to the underlying transport
    bRet,       \* what the backend's RoundTrip returned
    bPc,        \* "start", "inner" (transport running), "done"
    \* ---- OPTIONS handler ----
    oReq,       \* the request optionsHandler.RoundTrip is called with
    oSeen,      \* the request its inner RoundTripper is called with
    oIsOptions, \* its local isOptions
    oInner,     \* what the inner RoundTripper returned
    oRet,       \* what optionsHandler.RoundTrip returned
    oPc,        \* "start", "inner", "done"
    \* ---- header supplier ----
    hConf,      \* hs.requestHeaders and hs.responseHeaders
    hReq,       \* the request headersSuplier.RoundTrip is called with
    hSeen,      \* the request its inner RoundTripper is called with
    hOut,       \* per backend, the request the inner transport dispatched to it
    hInner,     \* what the inner RoundTripper returned
    hRet,       \* what headersSuplier.RoundTrip returned
    hPc,        \* "start", "inner", "dispatched", "done"
    \* ---- the registry of credentials stores ----
    instances,  \* the package variable instances: nil, or endpoint -> store
    caller      \* the goroutines calling GetInstance

crdVars == <<cache, lockHeld, cs_TTL, now, proc, coldGets>>
ringVars == <<conf, ringPc, sr, picked>>
decVars == <<decorators, chain, callee, stack, events, decPc>>
backendVars == <<bEndpoint, bInner, bReq, bOut, bRet, bPc>>
optVars == <<oReq, oSeen, oIsOptions, oInner, oRet, oPc>>
hsVars == <<hConf, hReq, hSeen, hOut, hInner, hRet, hPc>>
instVars == <<instances, caller>>
vars == <<crdVars, ringVars, decVars, backendVars, optVars, hsVars, instVars>>

(* What a step of one component leaves alone: the other components.        *)
notCrd == <<ringVars, decVars, backendVars, optVars, hsVars, instVars>>
notRing == <<crdVars, decVars, backendVars, optVars, hsVars, instVars>>
notDec == <<crdVars, ringVars, backendVars, optVars, hsVars, instVars>>
notBackend == <<crdVars, ringVars, decVars, optVars, hsVars, instVars>>
notOpt == <<crdVars, ringVars, decVars, backendVars, hsVars, instVars>>
notHs == <<crdVars, ringVars, decVars, backendVars, optVars, instVars>>
notInst == <<crdVars, ringVars, decVars, backendVars, optVars, hsVars>>

----------------------------------------------------------------------------
(* Bounds of the credentials-store model.                                  *)
NProcs == 3       \* goroutines; each runs one Get or one background refresh
MaxTicks == 4     \* the clock advances at most this many times
TickMs == 3000    \* milliseconds per clock step

Procs == 1 .. NProcs

(* Durations, in milliseconds.                                             *)
Millisecond == 1
Second == 1000
refreshTTLPercent == 80
ttl == 10 * Second

AccessKeys == {"AK"}
Backends == {"b1", "b2"}
Secrets == {"s1", "s2"}

ErrNil == "nil"
ErrCredentialsNotFound == "credentials not found"
ErrRequest == "unable to make request to credentials store service"
ErrStatus == "unable to get credentials from store service"
ErrEmpty == "got empty credentials from store service"
ErrUnmarshal == "unmarshal error"
TransientErrors == {ErrRequest, ErrStatus, ErrEmpty, ErrUnmarshal}

(* A nil *CredentialsStoreData, and a CredentialsStoreData value.          *)
Nil == [isNil |-> TRUE]
Csd(ak, sk, eol, err) == [AccessKey |-> ak, SecretKey |-> sk, EOL |-> eol, err |-> err]
EmptyCsd == Csd("", "", 0, ErrNil)

(* The ring's variables before anything is built or picked.               *)
EmptyMap == [x \in {} |-> ""]
NoConfig == [Clusters |-> EmptyMap, Client |-> [Clusters |-> <<>>, ShardsCount |-> 0]]
NoRing == [ring |-> {}, shardClusterMap |-> EmptyMap, allClusters |-> {}]
NoPick == [key |-> <<>>, result |-> [kind |-> "none", cluster |-> "", backends |-> {}]]

(* The decorators' and the backend's variables before anything runs.       *)
BaseRoundTripper == [dec |-> "rt"]
NoRequest == [Method |-> "", URL |-> [Scheme |-> "", Host |-> "", Path |-> ""], Host |-> ""]
NoError == [kind |-> "nil", backend |-> "", msg |-> ""]
NoReturn == [resp |-> [isNil |-> TRUE], err |-> NoError]

HasMaterial(c) == c # Nil /\ c.AccessKey # ""

(* prepareKey: fmt.Sprintf("%s_____%s", accessKey, backend)                *)
prepareKey(accessKey, backend) == accessKey \o "_____" \o backend

Keys == {prepareKey(a, b) : a \in AccessKeys, b \in Backends}

----------------------------------------------------------------------------
(* The credentials service: what one HTTP GET can come back with.          *)
(* neterr: grequests.Get failed; otherwise a status and a body.  A body    *)
(* has a length and, when it is a credentials document, the two fields.    *)
Body(len, valid, ak, sk) == [len |-> len, valid |-> valid, access_key |-> ak, secret_key |-> sk]
NoBody == Body(0, FALSE, "", "")
GarbageBody == Body(1, FALSE, "", "")

ServiceResponses(accessKey) ==
    {[neterr |-> TRUE, status |-> 0, body |-> NoBody]}
    \cup {[neterr |-> FALSE, status |-> 404, body |-> NoBody],
          [neterr |-> FALSE, status |-> 500, body |-> NoBody],
          [neterr |-> FALSE, status |-> 200, body |-> NoBody],
          [neterr |-> FALSE, status |-> 200, body |-> GarbageBody]}
    \cup {[neterr |-> FALSE, status |-> 200, body |-> Body(2, TRUE, accessKey, s)] :
              s \in Secrets}

(* csd.Unmarshal(credentials): fills AccessKey and SecretKey from the      *)
(* document, or fails and leaves csd as it was.                            *)
Unmarshal(csd, body) ==
    IF ~body.valid
    THEN [csd |-> csd, err |-> ErrUnmarshal]
    ELSE [csd |-> [csd EXCEPT !.AccessKey = body.access_key,
                              !.SecretKey = body.secret_key],
          err |-> ErrNil]

(* GetFromService: the pair (csd, err) it returns for a response.          *)
GetFromService(resp) ==
    CASE resp.neterr -> [csd |-> EmptyCsd, err |-> ErrRequest]
      [] resp.status = 404 -> [csd |-> Nil, err |-> ErrCredentialsNotFound]
      [] resp.status # 200 -> [csd |-> EmptyCsd, err |-> ErrStatus]
      [] resp.body.len = 0 -> [csd |-> EmptyCsd, err |-> ErrEmpty]
      [] OTHER -> Unmarshal(EmptyCsd, resp.body)

NewCsd_KeepsEol(got, csd, t, T) ==
    CASE got.err = ErrNil -> [got.csd EXCEPT !.err = ErrNil, !.EOL = t + T]
      [] got.err = ErrCredentialsNotFound -> Csd("", "", t + T, ErrCredentialsNotFound)
      [] OTHER -> IF csd = Nil THEN Csd("", "", t + T, got.err)
                  ELSE [csd EXCEPT !.err = got.err]

(* updateCache, lines 78-92: the entry stored for a fetch result, given    *)
(* the caller's snapshot csd and the clock.                                *)
NewCsd(got, csd, t, T) ==
    LET chosen ==
          CASE got.err = ErrNil -> [got.csd EXCEPT !.err = ErrNil]
            [] got.err = ErrCredentialsNotFound ->
                 Csd("", "", t + T, ErrCredentialsNotFound)
            [] OTHER ->
                 IF csd = Nil
                 THEN Csd("", "", t + T, got.err)
                 ELSE [csd EXCEPT !.err = got.err]
    IN  [chosen EXCEPT !.EOL = t + T]

(* updateCache, lines 95-98: what it returns after the store.              *)
UpdateCacheReturn(newCsd) ==
    IF newCsd.AccessKey = ""
    THEN [csd |-> Nil, err |-> newCsd.err]
    ELSE [csd |-> newCsd, err |-> ErrNil]

tryLock_IgnoresHolder == Cardinality({p \in Procs : proc[p].pc = "lockwait"}) = 0

(* tryLock: CompareAndSwapInt32(&cs.lock.state, 0, 1) succeeds when the    *)
(* mutex word is zero: not locked and no goroutine queued on it.           *)
Waiters == {p \in Procs : proc[p].pc = "lockwait"}
LockState == (IF lockHeld THEN 1 ELSE 0) + 8 * Cardinality(Waiters)
tryLock == LockState = 0

(* Get, line 118: the soft-refresh window added to time.Now().             *)
SoftWindow(T) == (T \div Second) * (100 - refreshTTLPercent) * 10 * Millisecond

(* Get, lines 113-120: the case taken for snapshot csd at clock t.         *)
GetBranch(csd, t, T) ==
    CASE csd = Nil \/ csd.AccessKey = "" -> "miss"
      [] t > csd.EOL -> "expired"
      [] t + SoftWindow(T) > csd.EOL -> "soft"
      [] OTHER -> "fresh"

GetBlocking_ExpiredBlocks(branch) == branch \in {"miss", "expired"}

(* The blocking argument Get passes to updateCache in each case.           *)
GetBlocking(branch) == branch = "miss"

----------------------------------------------------------------------------
(* Goroutines are anonymous: a new one takes the lowest free slot.         *)
FreeSlot(q) == proc[q].pc = "idle" /\ \A r \in Procs : proc[r].pc = "idle" => q <= r

(* A goroutine that has returned leaves before any other takes its next    *)
(* step: what it returned is read off the state in between.                *)
Quiet == \A q \in Procs : proc[q].pc # "done"

IdleProc ==
    [pc |-> "idle", kind |-> "none", accessKey |-> "", backend |-> "", key |-> "",
     csd |-> Nil, blocking |-> FALSE, branch |-> "none", fetched |-> FALSE,
     ret |-> [csd |-> Nil, err |-> ErrNil]]

(* A component that does not run in a specification.                      *)
CrdOff ==
    /\ cache = [k \in Keys |-> Nil] /\ lockHeld = FALSE /\ cs_TTL = ttl /\ now = 0
    /\ proc = [p \in Procs |-> IdleProc] /\ coldGets = [k \in Keys |-> 0]
RingOff == conf = NoConfig /\ ringPc = "off" /\ sr = NoRing /\ picked = NoPick
DecOff ==
    /\ decorators = <<>> /\ chain = BaseRoundTripper /\ callee = BaseRoundTripper
    /\ stack = <<>> /\ events = <<>> /\ decPc = "off"
BackendOff ==
    /\ bEndpoint = [Scheme |-> "", Host |-> ""] /\ bInner = NoError /\ bReq = NoRequest
    /\ bOut = NoRequest /\ bRet = NoReturn /\ bPc = "off"
HsNoRequest ==
    [Method |-> "", URL |-> [Scheme |-> "", Host |-> <<>>, Path |-> ""], Host |-> <<>>,
     Header |-> EmptyMap]
HsOff ==
    /\ hConf = [requestHeaders |-> EmptyMap, responseHeaders |-> EmptyMap]
    /\ hReq = HsNoRequest /\ hSeen = HsNoRequest /\ hOut = EmptyMap
    /\ hInner = NoReturn /\ hRet = NoReturn /\ hPc = "off"
InstOff == instances = [isNil |-> TRUE, m |-> EmptyMap] /\ caller = <<>>
OptOff ==
    /\ oReq = NoRequest /\ oSeen = NoRequest /\ oIsOptions = FALSE
    /\ oInner = NoReturn /\ oRet = NoReturn /\ oPc = "off"

(* initializeCredentialsStore: an empty cache, the default TTL, the lock   *)
(* free.                                                                   *)
InitCrd ==
    /\ cache = [k \in Keys |-> Nil]
    /\ lockHeld = FALSE
    /\ cs_TTL = ttl
    /\ now = 0
    /\ proc = [p \in Procs |-> IdleProc]
    /\ coldGets = [k \in Keys |-> 0]
    /\ RingOff /\ DecOff /\ BackendOff /\ OptOff /\ HsOff /\ InstOff

(* Get, lines 107-111: build the key and load the snapshot.                *)
GetLoad(p, accessKey, backend) ==
    /\ Quiet
    /\ FreeSlot(p)
    /\ LET key == prepareKey(accessKey, backend)
       IN  proc' = [proc EXCEPT ![p] =
                [@ EXCEPT !.pc = "switch", !.kind = "get", !.accessKey = accessKey,
                          !.backend = backend, !.key = key, !.csd = cache[key]]]
    /\ UNCHANGED <<cache, lockHeld, cs_TTL, now, coldGets, notCrd>>

(* Get, lines 113-122: the switch.  miss and expired call updateCache in   *)
(* this goroutine; soft starts a goroutine q for it and returns the        *)
(* snapshot; fresh returns the snapshot.                                   *)
GetSwitch(p) ==
    /\ Quiet
    /\ proc[p].pc = "switch"
    /\ LET branch == GetBranch(proc[p].csd, now, cs_TTL)
           me == [proc[p] EXCEPT !.branch = branch]
       IN  CASE branch \in {"miss", "expired"} ->
                  proc' = [proc EXCEPT ![p] =
                      [me EXCEPT !.blocking = GetBlocking(branch),
                                 !.pc = IF GetBlocking(branch) THEN "lock" ELSE "try"]]
             [] branch = "soft" ->
                  \E q \in Procs :
                      /\ FreeSlot(q)
                      /\ proc' = [proc EXCEPT
                            ![p] = [me EXCEPT !.pc = "done",
                                              !.ret = [csd |-> me.csd, err |-> ErrNil]],
                            ![q] = [me EXCEPT !.pc = "try", !.kind = "bg",
                                              !.blocking = FALSE]]
             [] OTHER ->
                  proc' = [proc EXCEPT ![p] =
                      [me EXCEPT !.pc = "done",
                                 !.ret = [csd |-> me.csd, err |-> ErrNil]]]
    /\ UNCHANGED <<cache, lockHeld, cs_TTL, now, coldGets, notCrd>>

(* The request counter once p enters GetFromService (line 77).             *)
SentRequest(p) ==
    IF proc[p].csd = Nil
    THEN [coldGets EXCEPT ![proc[p].key] = @ + 1]
    ELSE coldGets

(* updateCache, lines 70-73: the non-blocking entry.                       *)
TryLockStep(p) ==
    /\ Quiet
    /\ proc[p].pc = "try"
    /\ IF tryLock
       THEN /\ lockHeld' = TRUE
            /\ proc' = [proc EXCEPT ![p] = [@ EXCEPT !.pc = "fetch", !.fetched = TRUE]]
       ELSE /\ lockHeld' = lockHeld
            /\ proc' = [proc EXCEPT ![p] =
                  [@ EXCEPT !.pc = "done", !.ret = [csd |-> proc[p].csd, err |-> ErrNil]]]
    /\ coldGets' = IF tryLock THEN SentRequest(p) ELSE coldGets
    /\ UNCHANGED <<cache, cs_TTL, now, notCrd>>

(* updateCache, line 75: cs.lock.Lock() finds the mutex free and takes it. *)
LockAcquire(p) ==
    /\ Quiet
    /\ proc[p].pc \in {"lock", "lockwait"}
    /\ ~lockHeld
    /\ lockHeld' = TRUE
    /\ proc' = [proc EXCEPT ![p] = [@ EXCEPT !.pc = "fetch", !.fetched = TRUE]]
    /\ coldGets' = SentRequest(p)
    /\ UNCHANGED <<cache, cs_TTL, now, notCrd>>

(* updateCache, line 75: cs.lock.Lock() finds the mutex taken and queues.  *)
LockEnqueue(p) ==
    /\ Quiet
    /\ proc[p].pc = "lock"
    /\ lockHeld
    /\ proc' = [proc EXCEPT ![p] = [@ EXCEPT !.pc = "lockwait"]]
    /\ UNCHANGED <<cache, lockHeld, cs_TTL, now, coldGets, notCrd>>

FetchReturn_KeepsLockOnNotFound(p, resp) ==
    /\ Quiet
    /\ proc[p].pc = "fetch"
    /\ LET newCsd == NewCsd(GetFromService(resp), proc[p].csd, now, cs_TTL)
       IN  /\ cache' = [cache EXCEPT ![proc[p].key] = newCsd]
           /\ proc' = [proc EXCEPT ![p] =
                 [@ EXCEPT !.pc = "done", !.ret = UpdateCacheReturn(newCsd)]]
    /\ lockHeld' = (~resp.neterr /\ resp.status = 404)
    /\ UNCHANGED <<cs_TTL, now, coldGets, notCrd>>

(* updateCache, lines 77-98: the service answers; the entry is computed,   *)
(* stamped, stored, the lock released and the result returned.             *)
FetchReturn(p, resp) ==
    /\ Quiet
    /\ proc[p].pc = "fetch"
    /\ LET newCsd == NewCsd(GetFromService(resp), proc[p].csd, now, cs_TTL)
       IN  /\ cache' = [cache EXCEPT ![proc[p].key] = newCsd]
           /\ proc' = [proc EXCEPT ![p] =
                 [@ EXCEPT !.pc = "done", !.ret = UpdateCacheReturn(newCsd)]]
    /\ lockHeld' = FALSE
    /\ UNCHANGED <<cs_TTL, now, coldGets, notCrd>>

Fetch(p) == \E resp \in ServiceResponses(proc[p].accessKey) : FetchReturn(p, resp)

(* The goroutine that returned is gone.                                    *)
Retire(p) ==
    /\ proc[p].pc = "done"
    /\ proc' = [proc EXCEPT ![p] = [IdleProc EXCEPT !.pc = "retired"]]
    /\ UNCHANGED <<cache, lockHeld, cs_TTL, now, coldGets, notCrd>>

(* Time passes.                                                            *)
Tick ==
    /\ Quiet
    /\ now < MaxTicks * TickMs
    /\ now' = now + TickMs
    /\ UNCHANGED <<cache, lockHeld, cs_TTL, proc, coldGets, notCrd>>

(* A store whose TTL field was set to T, after one Get("AK", "b1") on the  *)
(* empty cache at time 0 was answered with credentials and returned, and   *)
(* with the given percentage of T gone by since.                           *)
TTLs == {100, 500, 1500, 2500, 10 * Second}
ElapsedPercents == {0, 50, 79, 80, 81, 85, 90, 99, 100, 101}
InitCrdTTL ==
    /\ cs_TTL \in TTLs
    /\ now \in {(cs_TTL * pct) \div 100 : pct \in ElapsedPercents}
    /\ cache = [k \in Keys |-> IF k = prepareKey("AK", "b1")
                                THEN Csd("AK", "s1", cs_TTL, ErrNil) ELSE Nil]
    /\ lockHeld = FALSE
    /\ proc = [p \in Procs |-> IF p = 1 THEN [IdleProc EXCEPT !.pc = "retired"]
                                         ELSE IdleProc]
    /\ coldGets = [k \in Keys |-> IF k = prepareKey("AK", "b1") THEN 1 ELSE 0]
    /\ RingOff /\ DecOff /\ BackendOff /\ OptOff /\ HsOff /\ InstOff

(* The store's steps at one reading of the clock.                          *)
NextCrdTTL ==
    \/ \E p \in Procs, a \in AccessKeys, b \in Backends : GetLoad(p, a, b)
    \/ \E p \in Procs : GetSwitch(p)
    \/ \E p \in Procs : TryLockStep(p)
    \/ \E p \in Procs : LockAcquire(p)
    \/ \E p \in Procs : LockEnqueue(p)
    \/ \E p \in Procs : Fetch(p)
    \/ \E p \in Procs : Retire(p)

NextCrd ==
    \/ \E p \in Procs, a \in AccessKeys, b \in Backends : GetLoad(p, a, b)
    \/ \E p \in Procs : GetSwitch(p)
    \/ \E p \in Procs : TryLockStep(p)
    \/ \E p \in Procs : LockAcquire(p)
    \/ \E p \in Procs : LockEnqueue(p)
    \/ \E p \in Procs : Fetch(p)
    \/ \E p \in Procs : Retire(p)
    \/ Tick


----------------------------------------------------------------------------
(* The sharding ring.                                                      *)
MaxShards == 9      \* client shards_count ranges over 0 .. MaxShards
MaxWeight == 2      \* cluster weights range over 0 .. MaxWeight
MaxClusters == 2    \* the client lists at most this many cluster names
MaxPathLen == 3     \* request paths have at most this many characters

(* The catalog's clusters and their backends; "X" is a name the client may *)
(* list that the catalog does not hold.                                    *)
CatalogNames == {"A", "A-1"}
ListedNames == CatalogNames \cup {"X"}

(* A backend is a config.YAMLURL: a struct around a *url.URL.  As a map    *)
(* key (line 121) it is compared field by field, so by the pointer and not *)
(* by the text of the URL: ptr names the url.URL value pointed to.  Both   *)
(* clusters list http://s2; whether the two entries are one url.URL value  *)
(* or two equal ones is up to the code that loaded the configuration.      *)
YAMLURL(url, ptr) == [url |-> url, ptr |-> ptr]
CatalogBackends(shared) ==
    [n \in CatalogNames |->
        IF n = "A" THEN {YAMLURL("http://s1", 1), YAMLURL("http://s2", 2)}
                   ELSE {YAMLURL("http://s2", IF shared THEN 2 ELSE 3),
                         YAMLURL("http://s3", 4)}]

SeqsUpTo(S, n) == UNION {[1 .. m -> S] : m \in 0 .. n}

(* Paths are sequences of characters.                                      *)
PathChars == {"/", "a"}
Paths == SeqsUpTo(PathChars, MaxPathLen)

(* strings.Trim(path, "/"): drop the leading and the trailing slashes.     *)
RECURSIVE TrimLeft(_)
TrimLeft(s) == IF s # <<>> /\ Head(s) = "/" THEN TrimLeft(Tail(s)) ELSE s
RECURSIVE TrimRight(_)
TrimRight(s) ==
    IF s # <<>> /\ s[Len(s)] = "/" THEN TrimRight(SubSeq(s, 1, Len(s) - 1)) ELSE s
Trim(s) == TrimRight(TrimLeft(s))

(* strings.Split(s, "/"): the segments between slashes; one more than the  *)
(* slashes, and one empty segment for the empty string.                    *)
RECURSIVE SplitFrom(_, _)
SplitFrom(s, cur) ==
    IF s = <<>> THEN <<cur>>
    ELSE IF Head(s) = "/" THEN <<cur>> \o SplitFrom(Tail(s), <<>>)
    ELSE SplitFrom(Tail(s), Append(cur, Head(s)))
Split(s) == SplitFrom(s, <<>>)

isBucketPath_NoTrim(path) == Len(Split(path)) = 1

(* shardsRing.isBucketPath                                                 *)
isBucketPath(path) == Len(Split(Trim(path))) = 1

(* fmt.Sprintf("%s-%d", name, i)                                           *)
ShardName(name, i) == name \o "-" \o ToString(i)

ShardsNum_RoundsUp(count, weight, weightSum) ==
    IF weightSum = 0 THEN 0 ELSE (count * weight + weightSum - 1) \div weightSum

(* mapShards, lines 111-112: int(float64(count) * float64(weight) /        *)
(* float64(weightSum)).  For these magnitudes the product is exact and the *)
(* quotient correctly rounded, so the conversion truncates the exact       *)
(* quotient.  weightSum = 0 happens only with weight = 0: the quotient 0/0 *)
(* is NaN, whose conversion is 0 or the least int, so the loop of line 112 *)
(* does not run.                                                           *)
ShardsNum(count, weight, weightSum) ==
    IF weightSum = 0 THEN 0 ELSE (count * weight) \div weightSum

(* ringFactory.getCluster / initCluster: ok is false for an unknown name.  *)
getCluster(c, name) ==
    IF name \in DOMAIN c.Clusters
    THEN [ok |-> TRUE, name |-> name, weight |-> c.Clusters[name].weight,
          backends |-> c.Clusters[name].backends]
    ELSE [ok |-> FALSE, name |-> name, weight |-> 0, backends |-> {}]

(* A Go map as a function: m with key k set to v.                          *)
MapPut(m, k, v) == [x \in DOMAIN m \cup {k} |-> IF x = k THEN v ELSE m[x]]

(* mapShards, lines 112-115: the inner loop for one cluster, from i on.    *)
RECURSIVE AddShards(_, _, _, _)
AddShards(m, name, i, n) ==
    IF i < n THEN AddShards(MapPut(m, ShardName(name, i), name), name, i + 1, n) ELSE m

(* mapShards, lines 106-117: the loop over the client's clusters.          *)
RECURSIVE mapShardsFrom(_, _, _, _)
mapShardsFrom(m, c, names, weightSum) ==
    IF names = <<>> THEN [ok |-> TRUE, map |-> m]
    ELSE LET cl == getCluster(c, Head(names))
         IN  IF ~cl.ok THEN [ok |-> FALSE, map |-> m]
             ELSE mapShardsFrom(
                    AddShards(m, cl.name, 0,
                              ShardsNum(c.Client.ShardsCount, cl.weight, weightSum)),
                    c, Tail(names), weightSum)
mapShards(weightSum, c) == mapShardsFrom(EmptyMap, c, c.Client.Clusters, weightSum)

(* clientRing, lines 143-153: the weight sum; ok is false at the first     *)
(* unknown name.                                                           *)
RECURSIVE WeightSumFrom(_, _, _)
WeightSumFrom(acc, c, names) ==
    IF names = <<>> THEN [ok |-> TRUE, sum |-> acc]
    ELSE LET cl == getCluster(c, Head(names))
         IN  IF ~cl.ok THEN [ok |-> FALSE, sum |-> acc]
             ELSE WeightSumFrom(acc + cl.weight, c, Tail(names))

(* uniqBackends: the keys of allBackendsSet, one for each distinct         *)
(* config.YAMLURL value among the listed clusters' backends; the slice     *)
(* returned holds the URL of each key.                                     *)
uniqBackends(c) ==
    UNION {getCluster(c, c.Client.Clusters[i]).backends : i \in DOMAIN c.Client.Clusters}

(* clientRing: the ring, or an error.                                      *)
clientRing(c) ==
    LET ws == WeightSumFrom(0, c, c.Client.Clusters)
        sm == mapShards(ws.sum, c)
    IN  IF ~ws.ok \/ ~sm.ok
        THEN [ok |-> FALSE, sr |-> NoRing]
        ELSE [ok |-> TRUE,
              sr |-> [ring |-> DOMAIN sm.map,
                      shardClusterMap |-> sm.map,
                      allClusters |-> uniqBackends(c)]]

(* sr.ring.Get(key) of groupcache's consistenthash: "" on an empty ring,   *)
(* otherwise the member the key's hash lands on (any member, here).        *)
RingGet(ring, key) == IF ring = {} THEN {""} ELSE ring

(* shardsRing.Pick for the shard name the ring gave.                       *)
PickResult(s, key, shardName) ==
    IF isBucketPath(key)
    THEN [kind |-> "all", cluster |-> "", backends |-> s.allClusters]
    ELSE IF shardName \in DOMAIN s.shardClusterMap
         THEN [kind |-> "cluster", cluster |-> s.shardClusterMap[shardName],
               backends |-> {}]
         ELSE [kind |-> "error", cluster |-> "", backends |-> {}]


Configs ==
    {[Clusters |-> [n \in CatalogNames |->
                       [weight |-> w[n], backends |-> CatalogBackends(shared)[n]]],
      Client |-> [Clusters |-> l, ShardsCount |-> count]] :
        w \in [CatalogNames -> 0 .. MaxWeight],
        l \in SeqsUpTo(ListedNames, MaxClusters),
        count \in 0 .. MaxShards,
        shared \in BOOLEAN}

InitRing ==
    /\ conf \in Configs
    /\ ringPc = "config"
    /\ sr = NoRing
    /\ picked = NoPick
    /\ CrdOff /\ DecOff /\ BackendOff /\ OptOff /\ HsOff /\ InstOff

(* NewHandler, line 198: build the client's ring.                          *)
ClientRing ==
    /\ ringPc = "config"
    /\ LET r == clientRing(conf)
       IN  /\ ringPc' = IF r.ok THEN "built" ELSE "error"
           /\ sr' = r.sr
    /\ UNCHANGED <<conf, picked, notRing>>

(* shardsRing.Pick(key) on the built ring.                                 *)
Pick(key) ==
    /\ ringPc = "built"
    /\ picked = NoPick
    /\ \E shardName \in RingGet(sr.ring, key) :
          picked' = [key |-> key, result |-> PickResult(sr, key, shardName)]
    /\ UNCHANGED <<conf, ringPc, sr, notRing>>

NextRing ==
    \/ ClientRing
    \/ \E key \in Paths : Pick(key)

----------------------------------------------------------------------------
(* Decorate and a round trip through the chain it returns.                 *)
MaxDecorators == 3   \* Decorate is given at most this many decorators

DecoratorIds == {"log", "headers", "options"}

(* dec(roundTripper): a RoundTripper that wraps the one it is given.       *)
Wrap(dec, roundTripper) == [dec |-> dec, inner |-> roundTripper]

RECURSIVE Decorate_LastFirst(_, _)
Decorate_LastFirst(roundTripper, decs) ==
    IF decs = <<>> THEN roundTripper
    ELSE Decorate_LastFirst(Wrap(decs[Len(decs)], roundTripper),
                            SubSeq(decs, 1, Len(decs) - 1))

(* Decorate: for _, dec := range decorators { roundTripper = dec(rt) }     *)
RECURSIVE Decorate(_, _)
Decorate(roundTripper, decs) ==
    IF decs = <<>> THEN roundTripper
    ELSE Decorate(Wrap(Head(decs), roundTripper), Tail(decs))

InitDecorate ==
    /\ decorators \in SeqsUpTo(DecoratorIds, MaxDecorators)
    /\ chain = BaseRoundTripper
    /\ callee = BaseRoundTripper
    /\ stack = <<>>
    /\ events = <<>>
    /\ decPc = "start"
    /\ CrdOff /\ RingOff /\ BackendOff /\ OptOff /\ HsOff /\ InstOff

(* Decorate(rt, decorators...) is called and a request handed to what it   *)
(* returns.                                                                *)
DecorateCall ==
    /\ decPc = "start"
    /\ chain' = Decorate(BaseRoundTripper, decorators)
    /\ callee' = chain'
    /\ decPc' = "call"
    /\ UNCHANGED <<decorators, stack, events, notDec>>

(* A decorator's RoundTrip is entered: it sees the request and calls the   *)
(* RoundTripper it wraps (part_000 lines 21, 79, 114).                     *)
RoundTripEnter ==
    /\ decPc = "call"
    /\ callee # BaseRoundTripper
    /\ events' = Append(events, <<"request", callee.dec>>)
    /\ stack' = Append(stack, callee.dec)
    /\ callee' = callee.inner
    /\ UNCHANGED <<decorators, chain, decPc, notDec>>

(* The undecorated transport is reached and answers.                       *)
BaseRoundTrip ==
    /\ decPc = "call"
    /\ callee = BaseRoundTripper
    /\ events' = Append(events, <<"request", "rt">>)
    /\ decPc' = "return"
    /\ UNCHANGED <<decorators, chain, callee, stack, notDec>>

(* The innermost running decorator gets the response and returns it.       *)
RoundTripExit ==
    /\ decPc = "return"
    /\ stack # <<>>
    /\ events' = Append(events, <<"response", stack[Len(stack)]>>)
    /\ stack' = SubSeq(stack, 1, Len(stack) - 1)
    /\ UNCHANGED <<decorators, chain, callee, decPc, notDec>>

NextDecorate ==
    \/ DecorateCall
    \/ RoundTripEnter
    \/ BaseRoundTrip
    \/ RoundTripExit

----------------------------------------------------------------------------
(* A storage backend's RoundTrip (storages.Backend, exercised by           *)
(* backend_test.go).                                                       *)
EndpointHosts == {"someremote.backend:8080", "other.backend:9000"}
Endpoints == {[Scheme |-> sc, Host |-> h] : sc \in {"http", "https"}, h \in EndpointHosts}
InboundHosts == {"localhost:8080", "bucket.s3.region.example"}
InboundPaths == {"", "/x/y", "/bucket"}
Methods == {"GET", "OPTIONS"}
Requests ==
    {[Method |-> m, URL |-> [Scheme |-> "http", Host |-> h, Path |-> path], Host |-> h] :
        m \in Methods, h \in InboundHosts, path \in InboundPaths}
InnerAnswers == {NoError, [kind |-> "error", backend |-> "", msg |-> "Connection timeout"]}

BackendRequest_KeepsHost(endpoint, req) ==
    [req EXCEPT !.URL.Scheme = endpoint.Scheme]

(* Backend.RoundTrip, before the dispatch: the request it hands to its     *)
(* transport has the endpoint's scheme and host in the URL.                *)
BackendRequest(endpoint, req) ==
    [req EXCEPT !.URL.Scheme = endpoint.Scheme, !.URL.Host = endpoint.Host]

BackendReturn_Unwrapped(endpoint, out, answer) ==
    IF answer = NoError
    THEN [resp |-> [isNil |-> FALSE, Request |-> out], err |-> NoError]
    ELSE [resp |-> [isNil |-> TRUE], err |-> answer]

(* Backend.RoundTrip, after the dispatch: the response, or a BackendError  *)
(* that carries the endpoint's host and the transport's error.             *)
BackendReturn(endpoint, out, answer) ==
    IF answer = NoError
    THEN [resp |-> [isNil |-> FALSE, Request |-> out], err |-> NoError]
    ELSE [resp |-> [isNil |-> TRUE],
          err |-> [kind |-> "BackendError", backend |-> endpoint.Host, msg |-> answer.msg]]

InitBackend ==
    /\ bEndpoint \in Endpoints
    /\ bInner \in InnerAnswers
    /\ bReq \in Requests
    /\ bOut = NoRequest
    /\ bRet = NoReturn
    /\ bPc = "start"
    /\ CrdOff /\ RingOff /\ DecOff /\ OptOff /\ HsOff /\ InstOff

(* b.RoundTrip(r): the request is rewritten and handed to the transport.   *)
BackendDispatch ==
    /\ bPc = "start"
    /\ bOut' = BackendRequest(bEndpoint, bReq)
    /\ bPc' = "inner"
    /\ UNCHANGED <<bEndpoint, bInner, bReq, bRet, notBackend>>

(* The transport answers and b.RoundTrip returns.                          *)
BackendAnswer ==
    /\ bPc = "inner"
    /\ bRet' = BackendReturn(bEndpoint, bOut, bInner)
    /\ bPc' = "done"
    /\ UNCHANGED <<bEndpoint, bInner, bReq, bOut, notBackend>>

NextBackend ==
    \/ BackendDispatch
    \/ BackendAnswer

----------------------------------------------------------------------------
(* HTTP headers: a map from header name to value.  Header.Set stores under *)
(* the canonical form of the name (textproto.CanonicalMIMEHeaderKey: the   *)
(* first letter and each letter after a hyphen upper case, the rest lower  *)
(* case); an index expression h[k] looks the name up as it is written.     *)
HeaderNames == {"X-A", "x-a", "Content-Length", "content-length", "Host"}
CanonicalMIMEHeaderKey(k) ==
    CASE k = "x-a" -> "X-A"
      [] k = "content-length" -> "Content-Length"
      [] OTHER -> k
CanonicalNames == {CanonicalMIMEHeaderKey(k) : k \in HeaderNames}
HeaderSet(h, k, v) == MapPut(h, CanonicalMIMEHeaderKey(k), v)

(* All maps from a subset of the names K to the values V.                  *)
Maps(K, V) == UNION {[D -> V] : D \in SUBSET K}

----------------------------------------------------------------------------
(* optionsHandler.RoundTrip.                                               *)
OptionsMethods == {"GET", "HEAD", "OPTIONS", "PUT", "options"}
OptionsRequests ==
    {[Method |-> m, URL |-> [Scheme |-> "http", Host |-> "localhost:8080", Path |-> path],
      Host |-> "localhost:8080"] : m \in OptionsMethods, path \in InboundPaths}

(* What a RoundTripper returns: a response and no error, no response and   *)
(* an error, or (allowed, if unusual) a response together with an error.   *)
Response(h) == [isNil |-> FALSE, Header |-> h]
TransportError == [kind |-> "error", backend |-> "", msg |-> "Connection timeout"]
RoundTripAnswers(headers) ==
    {[resp |-> [isNil |-> TRUE], err |-> TransportError]}
    \cup {[resp |-> Response(h), err |-> e] : h \in headers, e \in {NoError, TransportError}}
OptionsAnswers == RoundTripAnswers(Maps({"Content-Length", "X-A"}, {"0", "42"}))

OptionsRequest_KeepsMethod(req) == req

(* Lines 109-113: the request handed to the inner RoundTripper.            *)
OptionsRequest(req) ==
    IF req.Method = "OPTIONS" THEN [req EXCEPT !.Method = "HEAD"] ELSE req

(* Lines 115-119: what is returned for the inner RoundTripper's answer.    *)
OptionsResponse(isOptions, answer) ==
    IF ~answer.resp.isNil /\ isOptions
    THEN [answer EXCEPT !.resp.Header = HeaderSet(@, "Content-Length", "0")]
    ELSE answer

InitOptions ==
    /\ oReq \in OptionsRequests
    /\ oSeen = NoRequest
    /\ oIsOptions = FALSE
    /\ oInner = NoReturn
    /\ oRet = NoReturn
    /\ oPc = "start"
    /\ CrdOff /\ RingOff /\ DecOff /\ BackendOff /\ HsOff /\ InstOff

(* Lines 109-114: up to the call of the inner RoundTripper.                *)
OptionsEnter ==
    /\ oPc = "start"
    /\ oIsOptions' = (oReq.Method = "OPTIONS")
    /\ oSeen' = OptionsRequest(oReq)
    /\ oPc' = "inner"
    /\ UNCHANGED <<oReq, oInner, oRet, notOpt>>

(* Lines 114-119: the inner RoundTripper answers and RoundTrip returns.    *)
OptionsReturn ==
    /\ oPc = "inner"
    /\ \E answer \in OptionsAnswers :
          /\ oInner' = answer
          /\ oRet' = OptionsResponse(oIsOptions, answer)
    /\ oPc' = "done"
    /\ UNCHANGED <<oReq, oSeen, oIsOptions, notOpt>>

NextOptions ==
    \/ OptionsEnter
    \/ OptionsReturn

----------------------------------------------------------------------------
(* headersSuplier.RoundTrip, and the dispatch of the request it forwards.  *)
(* A host is the sequence of its dot-separated labels, so that joining two *)
(* hosts with "." is concatenation; header values are sequences as well.   *)
HsHosts ==
    {<<"localhost:8080">>, <<"bucket", "s3", "region", "example">>, <<"s3", "example">>,
     <<"a", "b", "s3", "c", "s3", "d">>}
InboundValue == <<"in">>
ConfiguredValue == <<"cfg">>
InnerValue == <<"srv">>

(* Inbound requests as the server hands them over: header names in         *)
(* canonical form, the Host header moved to req.Host, and req.URL.Host     *)
(* empty (origin-form request line) or equal to it (absolute-form).        *)
HsRequests ==
    {[Method |-> "GET", URL |-> [Scheme |-> sc, Host |-> uh, Path |-> "/x/y"], Host |-> h,
      Header |-> hd] :
        sc \in {"https"}, h \in HsHosts, uh \in {<<"">>} \cup HsHosts,
        hd \in Maps({"X-A"}, {InboundValue})}
HsConfs ==
    {[requestHeaders |-> rq, responseHeaders |-> rs] :
        rq \in Maps({"X-A", "x-a", "Host"}, {ConfiguredValue}),
        rs \in Maps({"X-A", "x-a"}, {ConfiguredValue})}
HsAnswers == RoundTripAnswers(Maps({"X-A"}, {InnerValue}))
HsBackends ==
    {[Scheme |-> "http", Host |-> <<"someremote", "backend:8080">>],
     [Scheme |-> "http", Host |-> <<"other", "backend:9000">>]}

(* The orders in which a range loop may visit the keys of a map.           *)
Orders(m) ==
    {o \in [1 .. Cardinality(DOMAIN m) -> DOMAIN m] :
        \A i, j \in DOMAIN o : o[i] = o[j] => i = j}

(* Lines 63-68 and 85-90: for k, v := range m, set k unless h[k] exists.   *)
RECURSIVE SupplyHeaders(_, _, _)
SupplyHeaders(h, m, order) ==
    IF order = <<>> THEN h
    ELSE LET k == Head(order)
         IN  SupplyHeaders(IF k \in DOMAIN h THEN h ELSE HeaderSet(h, k, m[k]),
                           m, Tail(order))

(* strings.Contains(host, ".s3.") and strings.Split(host, ".s3.")[0]: a    *)
(* label "s3" with a label on either side, and the labels before the first *)
(* such one.                                                               *)
S3Labels(host) == {i \in 2 .. Len(host) - 1 : host[i] = "s3"}
ContainsS3(host) == S3Labels(host) # {}
S3Prefix(host) ==
    SubSeq(host, 1, (CHOOSE i \in S3Labels(host) : \A j \in S3Labels(host) : i <= j) - 1)

(* Lines 62-77: the request handed to the inner RoundTripper.              *)
HeadersRequest(hs, req, order) ==
    LET supplied == [req EXCEPT !.URL.Scheme = "http",
                                !.Header = SupplyHeaders(@, hs.requestHeaders, order)]
    IN  IF ContainsS3(supplied.Host)
        THEN LET newhost == S3Prefix(supplied.Host) \o supplied.URL.Host
             IN  [supplied EXCEPT !.Header = HeaderSet(@, "Host", newhost),
                                  !.Host = newhost]
        ELSE supplied

(* Lines 81-91: what is returned for the inner RoundTripper's answer.      *)
HeadersResponse(hs, answer, order) ==
    IF answer.err # NoError THEN answer
    ELSE [answer EXCEPT !.resp.Header = SupplyHeaders(@, hs.responseHeaders, order)]

InitHeaders ==
    /\ hConf \in HsConfs
    /\ hReq \in HsRequests
    /\ hSeen = HsNoRequest
    /\ hOut = EmptyMap
    /\ hInner = NoReturn
    /\ hRet = NoReturn
    /\ hPc = "start"
    /\ CrdOff /\ RingOff /\ DecOff /\ BackendOff /\ OptOff /\ InstOff

(* Lines 62-79: up to the call of the inner RoundTripper.                  *)
HeadersEnter ==
    /\ hPc = "start"
    /\ \E order \in Orders(hConf.requestHeaders) :
          hSeen' = HeadersRequest(hConf, hReq, order)
    /\ hPc' = "inner"
    /\ UNCHANGED <<hConf, hReq, hOut, hInner, hRet, notHs>>

(* The inner RoundTripper is the ring (sharding.go line 205), whose        *)
(* transport hands the request to each of its backends.                    *)
HeadersDispatch ==
    /\ hPc = "inner"
    /\ hOut' = [b \in HsBackends |-> BackendRequest(b, hSeen)]
    /\ hPc' = "dispatched"
    /\ UNCHANGED <<hConf, hReq, hSeen, hInner, hRet, notHs>>

(* Lines 79-91: the inner RoundTripper answers and RoundTrip returns.      *)
HeadersReturn ==
    /\ hPc = "dispatched"
    /\ \E answer \in HsAnswers, order \in Orders(hConf.responseHeaders) :
          /\ hInner' = answer
          /\ hRet' = HeadersResponse(hConf, answer, order)
    /\ hPc' = "done"
    /\ UNCHANGED <<hConf, hReq, hSeen, hOut, notHs>>

NextHeaders ==
    \/ HeadersEnter
    \/ HeadersDispatch
    \/ HeadersReturn

----------------------------------------------------------------------------
(* GetInstance, called by goroutines that share the package variable       *)
(* instances.  Nothing orders the goroutines' reads and writes of it, so   *)
(* every interleaving of their statements is a behaviour.                  *)
NCallers == 3     \* goroutines; each calls GetInstance once

Callers == 1 .. NCallers
CrdEndpoints == {"http://crd1", "http://crd2"}

(* A nil *CredentialsStore; the store goroutine p allocates is named p.    *)
NoStore == 0
IdleCaller == [pc |-> "idle", endpoint |-> "", instance |-> NoStore, ret |-> NoStore]

(* instances[endpoint]: the zero value when the key is missing.            *)
Lookup(m, endpoint) == IF endpoint \in DOMAIN m THEN m[endpoint] ELSE NoStore

InitInstances ==
    /\ instances = [isNil |-> TRUE, m |-> EmptyMap]
    /\ caller = [p \in Callers |-> IdleCaller]
    /\ CrdOff /\ RingOff /\ DecOff /\ BackendOff /\ OptOff /\ HsOff

(* GetInstance(endpoint) is called; line 43 reads instances.               *)
GetInstanceCall(p, endpoint) ==
    /\ caller[p].pc = "idle"
    /\ caller' = [caller EXCEPT ![p] =
          [@ EXCEPT !.endpoint = endpoint,
                    !.pc = IF instances.isNil THEN "make" ELSE "lookup"]]
    /\ UNCHANGED <<instances, notInst>>

(* Line 44: instances = make(map[string]*CredentialsStore).                *)
GetInstanceMake(p) ==
    /\ caller[p].pc = "make"
    /\ instances' = [isNil |-> FALSE, m |-> EmptyMap]
    /\ caller' = [caller EXCEPT ![p] = [@ EXCEPT !.pc = "lookup"]]
    /\ UNCHANGED notInst

(* Lines 47-49: return the registered store if there is one.               *)
GetInstanceLookup(p) ==
    /\ caller[p].pc = "lookup"
    /\ caller' = [caller EXCEPT ![p] =
          IF caller[p].endpoint \in DOMAIN instances.m
          THEN [@ EXCEPT !.pc = "done", !.ret = instances.m[caller[p].endpoint]]
          ELSE [@ EXCEPT !.pc = "init"]]
    /\ UNCHANGED <<instances, notInst>>

(* initializeCredentialsStore, lines 57-61: allocate and register.         *)
InitializeStore(p) ==
    /\ caller[p].pc = "init"
    /\ instances' = [instances EXCEPT !.m = MapPut(@, caller[p].endpoint, p)]
    /\ caller' = [caller EXCEPT ![p] = [@ EXCEPT !.pc = "initret"]]
    /\ UNCHANGED notInst

(* initializeCredentialsStore, line 62: return instances[endpoint].        *)
InitializeReturn(p) ==
    /\ caller[p].pc = "initret"
    /\ caller' = [caller EXCEPT ![p] =
          [@ EXCEPT !.pc = "store", !.instance = Lookup(instances.m, caller[p].endpoint)]]
    /\ UNCHANGED <<instances, notInst>>

(* Line 51: instances[endpoint] = what initializeCredentialsStore gave.    *)
GetInstanceStore(p) ==
    /\ caller[p].pc = "store"
    /\ instances' = [instances EXCEPT !.m = MapPut(@, caller[p].endpoint, caller[p].instance)]
    /\ caller' = [caller EXCEPT ![p] = [@ EXCEPT !.pc = "return"]]
    /\ UNCHANGED notInst

(* Line 52: return instances[endpoint].                                    *)
GetInstanceReturn(p) ==
    /\ caller[p].pc = "return"
    /\ caller' = [caller EXCEPT ![p] =
          [@ EXCEPT !.pc = "done", !.ret = Lookup(instances.m, caller[p].endpoint)]]
    /\ UNCHANGED <<instances, notInst>>

NextInstances ==
    \/ \E p \in Callers, endpoint \in CrdEndpoints : GetInstanceCall(p, endpoint)
    \/ \E p \in Callers : GetInstanceMake(p)
    \/ \E p \in Callers : GetInstanceLookup(p)
    \/ \E p \in Callers : InitializeStore(p)
    \/ \E p \in Callers : InitializeReturn(p)
    \/ \E p \in Callers : GetInstanceStore(p)
    \/ \E p \in Callers : GetInstanceReturn(p)

----------------------------------------------------------------------------
(* The specifications: one component runs, the others stay switched off.  *)
SpecCrd == InitCrd /\ [][NextCrd]_vars
SpecCrdTTL == InitCrdTTL /\ [][NextCrdTTL]_vars

(* The store with its scheduling, at one reading of the clock: a goroutine *)
(* that can take its next step takes it, each request to the service       *)
(* returns (GetFromService has a request timeout), and a goroutine waiting *)
(* in Lock gets the mutex once it stays free.                              *)
FairCrd ==
    \A p \in Procs :
        /\ WF_vars(GetSwitch(p))
        /\ WF_vars(TryLockStep(p))
        /\ WF_vars(LockAcquire(p))
        /\ WF_vars(Fetch(p))
        /\ WF_vars(Retire(p))
LiveSpecCrdTTL == InitCrdTTL /\ [][NextCrdTTL]_vars /\ FairCrd
SpecRing == InitRing /\ [][NextRing]_vars
SpecDecorate == InitDecorate /\ [][NextDecorate]_vars
SpecBackend == InitBackend /\ [][NextBackend]_vars
SpecOptions == InitOptions /\ [][NextOptions]_vars
SpecHeaders == InitHeaders /\ [][NextHeaders]_vars
SpecInstances == InitInstances /\ [][NextInstances]_vars

----------------------------------------------------------------------------
(* Claims about the credentials store, under SpecCrd.                      *)

\* C1: single-flight on a cold cache - of all the Gets that loaded no entry
\* for a key, at most one sends an upstream request for that key.
C1_SingleFlight == \A k \in Keys : coldGets[k] <= 1

\* C2: negative caching - a Get that loaded the not-found entry of a key while
\* that entry's eol has not passed sends no request to the service.
C2_NegativeCache ==
    \A p \in Procs :
        proc[p].pc = "fetch" =>
            ~(/\ proc[p].csd # Nil
              /\ proc[p].csd.err = ErrCredentialsNotFound
              /\ now <= proc[p].csd.EOL)

C3_Step(p) ==
    (proc[p].pc = "try" /\ proc[p].kind = "get") =>
        /\ proc[p].branch = "expired"
        /\ proc'[p].pc \in {"try", "fetch", "done"}
        /\ proc'[p].pc = "fetch" => (LockState = 0 /\ lockHeld')
        /\ proc'[p].pc = "done" =>
              /\ LockState # 0
              /\ ~proc'[p].fetched
              /\ proc'[p].ret = [csd |-> proc[p].csd, err |-> ErrNil]
              /\ cache' = cache

C4_MutualExclusion ==
    /\ Cardinality({p \in Procs : proc[p].pc = "fetch"}) <= 1
    /\ (\E p \in Procs : proc[p].pc = "fetch") => lockHeld

\* C4 witness: a blocking refresh is in flight for one key while a Get on an
\* expired entry of another key has just failed its tryLock.
C4_Witness ==
    \E p, q \in Procs :
        /\ proc[p].pc = "fetch" /\ proc[p].blocking
        /\ proc[q].pc = "done" /\ proc[q].branch = "expired" /\ ~proc[q].fetched
        /\ proc[p].key # proc[q].key

C8_Step(p) ==
    LET k == proc[p].key IN
    (proc[p].pc = "fetch" /\ proc'[p].pc = "done" /\ cache'[k].err \in TransientErrors) =>
        IF HasMaterial(cache[k])
        THEN /\ cache'[k].AccessKey = cache[k].AccessKey
             /\ cache'[k].SecretKey = cache[k].SecretKey
             /\ cache'[k].EOL = now + cs_TTL
             /\ proc[p].kind = "get" => proc'[p].ret = [csd |-> cache'[k], err |-> ErrNil]
        ELSE proc[p].kind = "get" =>
                proc'[p].ret = [csd |-> Nil, err |-> cache'[k].err]

\* C8: a refresh that fails transiently, for a key whose cache entry holds
\* credential material, stores an entry with the same access_key and
\* secret_key, the error as last_error and eol = now + TTL, and Get returns it
\* with a nil error; when the entry holds no material, Get returns no
\* credentials and the error.
C8_TransientKeepsCredentials == [][\A p \in Procs : C8_Step(p)]_vars

----------------------------------------------------------------------------
(* Claims about the sharding ring, under SpecRing.                         *)

(* The number of non-empty segments of a path, counted on the path as it   *)
(* is given.                                                               *)
NonEmptySegments(path) ==
    Cardinality({i \in DOMAIN Split(path) : Split(path)[i] # <<>>})

\* C6, as claimed: Pick returns the all-clusters transport exactly for the
\* keys with exactly one non-empty segment.
C6_BucketIffOneSegment ==
    picked # NoPick =>
        (picked.result.kind = "all" <=> NonEmptySegments(picked.key) = 1)

\* C6, amended: Pick returns the all-clusters transport exactly for the keys
\* with at most one non-empty segment (so also for "/" and the empty path);
\* every other key is looked up on the ring, and Pick returns the cluster that
\* owns the shard the ring gave, a cluster listed for the client, or the
\* no-cluster error, which it gives only on an empty ring.
C6_BucketIffAtMostOneSegment ==
    picked # NoPick =>
        /\ picked.result.kind = "all" <=> NonEmptySegments(picked.key) <= 1
        /\ picked.result.kind = "all" => picked.result.backends = sr.allClusters
        /\ picked.result.kind \in {"all", "cluster", "error"}
        /\ picked.result.kind = "cluster" =>
              \E i \in DOMAIN conf.Client.Clusters :
                  conf.Client.Clusters[i] = picked.result.cluster
        /\ picked.result.kind = "error" => sr.ring = {}

\* C6 witness: on a ring that holds shards, the root path "/" was picked and
\* went to the all-clusters transport.
C6_Witness ==
    /\ picked.key = <<"/">> /\ picked.result.kind = "all"
    /\ conf.Client.Clusters = <<"A", "A-1">> /\ conf.Client.ShardsCount = 3
    /\ conf.Clusters["A"].weight = 1 /\ sr.ring # {}

(* The client's listed clusters, their weight sum, and floor(S*w/W) as the *)
(* n with n*W <= S*w < (n+1)*W.                                            *)
Listed == {conf.Client.Clusters[i] : i \in DOMAIN conf.Client.Clusters}
RECURSIVE SumWeights(_)
SumWeights(names) ==
    IF names = <<>> THEN 0
    ELSE conf.Clusters[Head(names)].weight + SumWeights(Tail(names))
IsFloorShare(n, name) ==
    LET W == SumWeights(conf.Client.Clusters)
        Sw == conf.Client.ShardsCount * conf.Clusters[name].weight
    IN  n * W <= Sw /\ Sw < (n + 1) * W
ShardsOf(name) == {k \in 0 .. conf.Client.ShardsCount : ShardName(name, k) \in sr.ring}

\* C7: in a ring built from listed clusters whose weights sum to W > 0, each
\* listed cluster owns exactly floor(S*w/W) identifiers "{cluster}-{k}",
\* numbered from 0; the ring holds at most S identifiers; and each identifier
\* is an entry of the shard-to-cluster index that maps to the one cluster it
\* is named after.
C7_WeightedShards ==
    (ringPc = "built" /\ SumWeights(conf.Client.Clusters) > 0) =>
        /\ \A name \in Listed :
              /\ IsFloorShare(Cardinality(ShardsOf(name)), name)
              /\ ShardsOf(name) = 0 .. (Cardinality(ShardsOf(name)) - 1)
        /\ Cardinality(sr.ring) <= conf.Client.ShardsCount
        /\ DOMAIN sr.shardClusterMap = sr.ring
        /\ \A id \in sr.ring :
              /\ sr.shardClusterMap[id] \in Listed
              /\ \A name \in Listed :
                    (\E k \in 0 .. conf.Client.ShardsCount : id = ShardName(name, k))
                        <=> sr.shardClusterMap[id] = name

\* C7 witness: weights 2 and 1 with 9 shards gave 6 and 3 identifiers.
C7_Witness ==
    /\ ringPc = "built"
    /\ conf.Client.Clusters = <<"A", "A-1">> /\ conf.Client.ShardsCount = 9
    /\ conf.Clusters["A"].weight = 2 /\ conf.Clusters["A-1"].weight = 1
    /\ Cardinality(ShardsOf("A")) = 6 /\ Cardinality(ShardsOf("A-1")) = 3
    /\ Cardinality(sr.ring) = 9

----------------------------------------------------------------------------
(* Claims about Decorate, under SpecDecorate.                              *)

RoundTripOver == decPc = "return" /\ stack = <<>>

\* C5, as claimed: the first-listed decorator is the outermost: it sees the
\* request first and the response last, and the last-listed decorator is the
\* one that calls the undecorated transport.
C5_FirstListedOutermost ==
    (RoundTripOver /\ decorators # <<>>) =>
        /\ events[1] = <<"request", decorators[1]>>
        /\ events[Len(events)] = <<"response", decorators[1]>>
        /\ events[Len(decorators)] = <<"request", decorators[Len(decorators)]>>

\* C5, amended: for Decorate(rt, d1, ..., dn) the last-listed decorator dn is
\* the outermost wrapper: requests pass dn, ..., d1 and then rt, responses
\* pass d1, ..., dn; d1 is the one directly wrapping rt.
C5_LastListedOutermost ==
    RoundTripOver =>
        LET n == Len(decorators)
        IN  events = [i \in 1 .. 2 * n + 1 |->
                        IF i <= n THEN <<"request", decorators[n + 1 - i]>>
                        ELSE IF i = n + 1 THEN <<"request", "rt">>
                        ELSE <<"response", decorators[i - n - 1]>>]

\* C5 witness: a round trip through Decorate(rt, log, headers) is over; the
\* request passed headers before log.
C5_Witness ==
    /\ RoundTripOver
    /\ decorators = <<"log", "headers">>
    /\ events[1] = <<"request", "headers">>

----------------------------------------------------------------------------
(* Claims about the storage backend, under SpecBackend.                    *)

\* C9: when the backend's underlying transport returns an error, RoundTrip
\* returns a nil response and a BackendError whose backend is the configured
\* endpoint host and which carries the transport's error.
C9_BackendErrorWrapped ==
    (bPc = "done" /\ bInner # NoError) =>
        /\ bRet.resp.isNil
        /\ bRet.err.kind = "BackendError"
        /\ bRet.err.backend = bEndpoint.Host
        /\ bRet.err.msg = bInner.msg

\* C9 witness: a dispatch to someremote.backend:8080 failed with "Connection
\* timeout" and RoundTrip has returned.
C9_Witness ==
    /\ bPc = "done"
    /\ bInner.msg = "Connection timeout"
    /\ bEndpoint.Host = "someremote.backend:8080"
    /\ bRet.err # NoError

\* C10: the request a backend hands to its underlying transport has the
\* configured endpoint host as URL host and the inbound path.
C10_HostRewritten ==
    bPc \in {"inner", "done"} =>
        /\ bOut.URL.Host = bEndpoint.Host
        /\ bOut.URL.Path = bReq.URL.Path
        /\ (bPc = "done" /\ bInner = NoError) => bRet.resp.Request.URL.Host = bEndpoint.Host

\* C10 witness: the request for http://localhost:8080/x/y was handed on by a
\* backend configured as http://someremote.backend:8080.
C10_Witness ==
    /\ bPc = "done" /\ bInner = NoError
    /\ bReq.URL.Host = "localhost:8080" /\ bReq.URL.Path = "/x/y"
    /\ bEndpoint = [Scheme |-> "http", Host |-> "someremote.backend:8080"]
    /\ bRet.resp.Request.URL.Path = "/x/y"

----------------------------------------------------------------------------
(* Claims about the OPTIONS handler, under SpecOptions.                    *)

\* C11: a request with method OPTIONS reaches the inner transport with method
\* HEAD and, whenever the inner transport returns a response, the response
\* returned has Content-Length 0; a request with any other method is forwarded
\* unchanged and what the inner transport returned is returned untouched.
C11_OptionsRewritten ==
    /\ oPc \in {"inner", "done"} =>
          /\ oReq.Method = "OPTIONS" => oSeen = [oReq EXCEPT !.Method = "HEAD"]
          /\ oReq.Method # "OPTIONS" => oSeen = oReq
    /\ oPc = "done" =>
          /\ oRet.err = oInner.err
          /\ oRet.resp.isNil = oInner.resp.isNil
          /\ (oReq.Method = "OPTIONS" /\ ~oInner.resp.isNil) =>
                /\ "Content-Length" \in DOMAIN oRet.resp.Header
                /\ oRet.resp.Header["Content-Length"] = "0"
                /\ \A k \in DOMAIN oInner.resp.Header \ {"Content-Length"} :
                      /\ k \in DOMAIN oRet.resp.Header
                      /\ oRet.resp.Header[k] = oInner.resp.Header[k]
          /\ oReq.Method # "OPTIONS" => oRet = oInner

\* C11 witness: an OPTIONS request was answered by the inner transport with
\* Content-Length 42 and the handler returned Content-Length 0.
C11_Witness ==
    /\ oPc = "done" /\ oReq.Method = "OPTIONS" /\ oSeen.Method = "HEAD"
    /\ ~oInner.resp.isNil /\ "Content-Length" \in DOMAIN oInner.resp.Header
    /\ oInner.resp.Header["Content-Length"] = "42"
    /\ oRet.resp.Header["Content-Length"] = "0"

----------------------------------------------------------------------------
(* Claims about the header supplier, under SpecHeaders.                    *)

(* Header names are case-insensitive: h holds the name k when one of its   *)
(* keys has k's canonical form.                                            *)
HasName(h, k) == \E j \in DOMAIN h : CanonicalMIMEHeaderKey(j) = CanonicalMIMEHeaderKey(k)
ValueOf(h, k) ==
    h[CHOOSE j \in DOMAIN h : CanonicalMIMEHeaderKey(j) = CanonicalMIMEHeaderKey(k)]
SetOnlyIfAbsent(before, after, m) ==
    \A k \in DOMAIN m :
        /\ HasName(after, k)
        /\ ValueOf(after, k) = IF HasName(before, k) THEN ValueOf(before, k) ELSE m[k]

\* C12: every configured request header whose name is already on the inbound
\* request reaches the inner transport with the inbound value, and every
\* configured response header whose name the inner layers already set is
\* returned with the inner value; configured headers that are absent get the
\* configured value; nothing is returned before the inner call has returned.
C12_SetsOnlyAbsent ==
    /\ hPc \in {"inner", "dispatched", "done"} =>
          SetOnlyIfAbsent(hReq.Header, hSeen.Header, hConf.requestHeaders)
    /\ hPc # "done" => hRet = NoReturn
    /\ (hPc = "done" /\ hInner.err = NoError) =>
          SetOnlyIfAbsent(hInner.resp.Header, hRet.resp.Header, hConf.responseHeaders)

\* C13: a request whose original Host contains ".s3." is dispatched to each
\* backend with Host equal to the part before ".s3." joined by "." with that
\* backend's host, and with the backend's host in the URL.
C13_S3HostPreserved ==
    (hPc \in {"dispatched", "done"} /\ ContainsS3(hReq.Host)) =>
        \A b \in HsBackends :
            /\ hOut[b].Host = S3Prefix(hReq.Host) \o b.Host
            /\ hOut[b].URL.Host = b.Host

----------------------------------------------------------------------------
(* Claims about the registry of stores, under SpecInstances.               *)

\* C14: under any interleaving of GetInstance calls, every call for an
\* endpoint returns one and the same CredentialsStore, the one the first call
\* created: no call returns nil and no two calls return different stores.
C14_Singleton ==
    \A p, q \in Callers :
        (caller[p].pc = "done" /\ caller[q].pc = "done"
           /\ caller[p].endpoint = caller[q].endpoint) =>
            /\ caller[p].ret # NoStore
            /\ caller[p].ret = caller[q].ret

----------------------------------------------------------------------------
(* More claims about the sharding ring, under SpecRing.                    *)

(* The URLs the all-clusters transport was built over, and how many of its *)
(* endpoints have a given URL.                                             *)
AllClustersURLs == {e.url : e \in sr.allClusters}
EndpointsWith(url) == Cardinality({e \in sr.allClusters : e.url = url})

\* C15: in every ring clientRing builds, the endpoints of the all-clusters
\* transport are exactly the backend URLs of the clusters listed for the
\* client, each URL once even when several clusters share it.
C15_AllClustersCoverage ==
    ringPc = "built" =>
        /\ AllClustersURLs =
              {b.url : b \in UNION {conf.Clusters[name].backends : name \in Listed}}
        /\ \A url \in AllClustersURLs : EndpointsWith(url) = 1

----------------------------------------------------------------------------
(* Claims about the soft-refresh threshold, under SpecCrdTTL.              *)

\* C16: for every TTL, a Get that finds an unexpired entry with credential
\* material returns it at once, and starts a background refresh exactly when
\* now > eol - 0.2 * TTL, that is when less than a fifth of the TTL remains.
C16_SoftThreshold ==
    \A p \in Procs :
        (/\ proc[p].pc = "done" /\ proc[p].kind = "get"
         /\ HasMaterial(proc[p].csd) /\ now <= proc[p].csd.EOL) =>
            /\ proc[p].ret = [csd |-> proc[p].csd, err |-> ErrNil]
            /\ ~proc[p].fetched
            /\ proc[p].branch = "soft" <=> 5 * (proc[p].csd.EOL - now) < cs_TTL
            /\ proc[p].branch = "soft" <=>
                  \E q \in Procs : proc[q].kind = "bg" /\ proc[q].pc = "try"

----------------------------------------------------------------------------
(* More claims about the credentials store, under SpecCrd.                 *)

(* Goroutine p stores the outcome of its fetch in this step.               *)
Writes(p) == proc[p].pc = "fetch" /\ proc'[p].pc = "done"

\* C17, as claimed: each successful refresh stores an eol strictly greater
\* than the eol of the entry it replaces, and no write lowers a key's eol.
C17_EolStrictlyGreater ==
    [][\A p \in Procs :
          LET k == proc[p].key IN
          (Writes(p) /\ cache[k] # Nil) =>
              /\ cache'[k].EOL >= cache[k].EOL
              /\ cache'[k].err = ErrNil => cache'[k].EOL > cache[k].EOL]_vars

\* C17, amended: the cache changes only by the write that ends a fetch; every
\* such write, successful or not, stores eol = now + TTL for the clock reading
\* now taken at the write, so a write never lowers the eol stored for its key;
\* the new eol is strictly greater than the replaced one exactly when the
\* clock reading has advanced since the replaced entry was stored, and equal
\* to it otherwise.
C17_EolNeverLowered ==
    [][/\ \A k \in Keys :
             cache'[k] # cache[k] => \E p \in Procs : Writes(p) /\ proc[p].key = k
       /\ \A p \in Procs :
             LET k == proc[p].key IN
             Writes(p) =>
                 /\ cache'[k].EOL = now + cs_TTL
                 /\ cache[k] # Nil =>
                       /\ cache'[k].EOL >= cache[k].EOL
                       /\ cache'[k].EOL > cache[k].EOL <=> cache[k].EOL - cs_TTL < now
                       /\ cache[k].EOL - cs_TTL <= now]_vars

\* C17 witness: a goroutine that loaded an entry has refreshed it
\* successfully after the clock advanced, and the entry now in the cache has
\* a later eol than the one it loaded.
C17_Witness ==
    \E p \in Procs :
        /\ proc[p].pc = "done" /\ proc[p].fetched /\ proc[p].csd # Nil
        /\ cache[proc[p].key].err = ErrNil /\ HasMaterial(cache[proc[p].key])
        /\ cache[proc[p].key].EOL = now + cs_TTL
        /\ cache[proc[p].key].EOL > proc[p].csd.EOL

\* C18: a call of updateCache that took the store lock, by Lock or by a
\* successful tryLock, releases it exactly once, with the write that ends its
\* fetch, whatever the service answered; a call whose tryLock failed never
\* changes the lock; the lock is held only while its holder is fetching; and
\* given that each service request returns, every Get waiting for the lock
\* eventually returns.
C18_LockReleasedAndProgress ==
    /\ [](lockHeld <=> \E p \in Procs : proc[p].pc = "fetch")
    /\ [][/\ \A p \in Procs : Writes(p) => (lockHeld /\ ~lockHeld')
          /\ lockHeld /\ ~lockHeld' => \E p \in Procs : Writes(p)
          /\ ~lockHeld /\ lockHeld' =>
                \E p \in Procs : proc[p].pc \in {"try", "lock", "lockwait"}
                                    /\ proc'[p].pc = "fetch"
          /\ \A p \in Procs :
                (proc[p].pc = "try" /\ proc'[p].pc = "done") =>
                    (lockHeld' = lockHeld /\ ~proc'[p].fetched)
          /\ \A p \in Procs :
                proc[p].pc = "done" => proc'[p].pc \in {"done", "retired"}
          /\ \A p \in Procs :
                proc[p].pc = "retired" => proc'[p].pc = "retired"]_vars
    /\ \A p \in Procs :
          (proc[p].pc \in {"lock", "lockwait", "fetch"}) ~> (proc[p].pc = "done")

\* C18 witness: a blocking call has just stored its result and released the
\* lock while another Get is queued on it.
C18_Witness ==
    \E p, q \in Procs :
        /\ proc[p].pc = "done" /\ proc[p].blocking /\ proc[p].fetched
        /\ proc[q].pc = "lockwait"
        /\ ~lockHeld

(* The credential material of a cache slot; none for a key never stored.   *)
Material(c) == IF c = Nil THEN <<"", "">> ELSE <<c.AccessKey, c.SecretKey>>

\* C19: under any interleaving of Gets and background refreshes, the write of
\* a refresh that failed transiently leaves the access_key and secret_key
\* stored for its key as they were right before that write.
C19_NoRegression ==
    [][\A p \in Procs :
          LET k == proc[p].key IN
          (Writes(p) /\ cache'[k].err \in TransientErrors) =>
              Material(cache'[k]) = Material(cache[k])]_vars

----------------------------------------------------------------------------
(* A claim about Pick on the rings clientRing builds, under SpecRing.      *)

\* C20: on every ring clientRing returned without error, for every key that
\* is not a bucket path, Pick returns the transport of a cluster listed for
\* the client and never the no-cluster-for-shard error.
C20_PickNeverFails ==
    (picked # NoPick /\ ~isBucketPath(picked.key)) =>
        /\ picked.result.kind = "cluster"
        /\ picked.result.cluster \in Listed

====
